---------------------------- MODULE Spec2Model ----------------------------
(* A model of tornado_tester: the Tester life cycle (setup, teardown, the   *)
(* guarded accessors, url_for, the with-statement protocol) and the         *)
(* gen_test adapter that pumps a generator test body under an I/O loop.     *)
EXTENDS Integers, Sequences, FiniteSets, TLC

(***************************************************************************)
(* Universe                                                                *)
(***************************************************************************)
None == "None"

\* Tester instances of one test process.
Testers == {"t1", "t2"}

\* IOLoop instances: every Tester holds one (its own or a shared one), and
\* one of them is the process-wide current loop.
Loops == {"loopA", "loopB", "loopC"}

\* The loop that is current when the test process starts.
InitialLoop == "loopA"

\* Ports: a port requested at construction, and the ports the operating
\* system hands out for an unused-port bind.
FixedPorts == {8080}
EphemeralPorts == {49152, 49153}
NoPort == <<>>

\* Bounds of the model.
MaxDepth == 2
MaxYields == 3

VARIABLES
  io_loop,        \* Tester.io_loop
  port,           \* Tester.port: NoPort (None) or <<p>>
  _setup,         \* Tester._setup
  _used,          \* Tester._used
  _last_current,  \* Tester._last_current: None or a loop
  _http_server,   \* Tester._http_server: None or a server object
  _http_client,   \* Tester._http_client: None or a client object
  _sock,          \* Tester._sock: None or a socket object
  servers,        \* the HTTPServer objects, by the Tester that made them
  clients,        \* the AsyncHTTPClient objects
  sockets,        \* the socket objects
  current,        \* tornado.ioloop.IOLoop.current()
  order,          \* history: the active Testers, in the order of their setup
  nested,         \* history: every teardown so far was of the last set up
  ret,            \* outcome of the latest call on a Tester
  stack,          \* the with-statements entered and not yet left
  exc,            \* the exception propagating in the running code, or None
  pc,             \* gen_test: where the wrapped call is
  stage,          \* gen_test: which advance of the generator is in progress
  captured,       \* gen_test: io_loop captured after the first advance
  value,          \* gen_test: the value the adapter holds
  receive,        \* what the test function was last given: the arguments
                  \* of its call, a sent result or a thrown error
  nyield,         \* number of values the generator has yielded
  awaited,        \* the awaits the adapter has started, in order
  ninject,        \* number of cross-loop errors thrown into the generator
  genexit,        \* how the test function ended
  outcome         \* how the wrapped call ended

testerVars == <<io_loop, port, _setup, _used, _last_current,
                _http_server, _http_client, _sock>>
heapVars == <<servers, clients, sockets>>
scopeVars == <<stack, exc>>
genVars == <<pc, stage, captured, value, receive, nyield, awaited, ninject,
             genexit, outcome>>
histVars == <<order, nested>>
vars == <<testerVars, heapVars, current, histVars, ret, scopeVars, genVars>>

(***************************************************************************)
(* Objects created by setup().  Each Tester creates at most one of each,   *)
(* so an object is named by the Tester whose setup() created it.           *)
(***************************************************************************)
NoServer == [made |-> FALSE, io_loop |-> None, attached |-> {}, stopped |-> FALSE]
NoClient == [made |-> FALSE, io_loop |-> None, closed |-> FALSE]
NoSocket == [made |-> FALSE, kind |-> None, port |-> NoPort, closed |-> FALSE]

\* tornado.httpserver.HTTPServer(app, io_loop=loop)
HTTPServer(loop) ==
  [made |-> TRUE, io_loop |-> loop, attached |-> {}, stopped |-> FALSE]

\* http_client_class(io_loop=loop)
http_client_class(loop) == [made |-> TRUE, io_loop |-> loop, closed |-> FALSE]

\* Ports held by an open socket.
PortsInUse == {sockets[t].port[1] : t \in {u \in Testers :
                  sockets[u].made /\ ~sockets[u].closed}}

\* tornado.testing.bind_unused_port(): one socket on a port nobody holds.
bind_unused_port(p) ==
  [made |-> TRUE, kind |-> "socket", port |-> <<p>>, closed |-> FALSE]

\* netutil.bind_sockets(port): a list of sockets, not a socket.
bind_sockets(p) ==
  [made |-> TRUE, kind |-> "list", port |-> p, closed |-> FALSE]

\* HTTPServer.add_socket(sock) reads sock.fileno(): a list has none.
AddSocketError(s) == IF s.kind = "list" THEN "AttributeError" ELSE None

(***************************************************************************)
(* Tester.__init__                                                         *)
(***************************************************************************)
\* Loops are interchangeable, and so are Testers: the loop current at the
\* start is loopA, the other loops are named in the order of the Testers,
\* and a Tester on the initial loop comes first.
LoopsNamedInOrder ==
  /\ io_loop["t1"] \in {"loopA", "loopB"}
  /\ io_loop["t2"] = "loopC" => io_loop["t1"] = "loopB"
  /\ io_loop["t2"] = "loopA" => io_loop["t1"] = "loopA"

TesterInit ==
  /\ io_loop \in [Testers -> Loops]
  /\ LoopsNamedInOrder
  /\ port \in [Testers -> {NoPort} \cup {<<p>> : p \in FixedPorts}]
  /\ _setup = [t \in Testers |-> FALSE]
  /\ _used = [t \in Testers |-> FALSE]
  /\ _last_current = [t \in Testers |-> None]
  /\ _http_server = [t \in Testers |-> None]
  /\ _http_client = [t \in Testers |-> None]
  /\ _sock = [t \in Testers |-> None]
  /\ servers = [t \in Testers |-> NoServer]
  /\ clients = [t \in Testers |-> NoClient]
  /\ sockets = [t \in Testers |-> NoSocket]


(***************************************************************************)
(* Exceptions                                                              *)
(***************************************************************************)
ErrAlreadySetup == "RuntimeError: This tester was already setup."
ErrReuse == "RuntimeError: Tester can not be reused."
ErrNotSetup == "RuntimeError: You can not teardown tester not setup yet."
ErrProperty == "RuntimeError: Tester should be set up before using this property."
ErrMethod == "RuntimeError: Tester should be set up before using this method."
ErrMultiLoop == "RuntimeError: You cannot use multiple I/O loops in one test."
RuntimeErrors ==
  {ErrAlreadySetup, ErrReuse, ErrNotSetup, ErrProperty, ErrMethod, ErrMultiLoop}

\* Where a call that setup() makes into the framework may raise.
FailPoints == {"none", "server", "client", "bind", "attach"}

NoValue == <<>>
Returned(x) == <<x>>
NoCall == [op |-> "none", self |-> None, raised |-> None, value |-> NoValue]

(***************************************************************************)
(* Tester.setup                                                            *)
(***************************************************************************)
\* Mutant: the reuse check is missing.
SetupCheck_NoReuse(t) == IF _setup[t] THEN ErrAlreadySetup ELSE None

\* Mutant: the already-set-up check is missing.
SetupCheck_NoActive(t) == IF ~_setup[t] /\ _used[t] THEN ErrReuse ELSE None

\* Mutant: a setup() that was cut short may be tried again.
SetupCheck_Retry(t) ==
  IF _setup[t] THEN ErrAlreadySetup
  ELSE IF _used[t] /\ servers[t].attached # {} THEN ErrReuse
  ELSE None

\* The two life cycle checks setup() opens with.
SetupCheck(t) ==
  IF _setup[t] THEN ErrAlreadySetup
  ELSE IF _used[t] THEN ErrReuse
  ELSE None

\* Mutant: the loop is recorded after the Tester's own was installed.
LoopToSave_Own(t) == io_loop[t]

\* The loop setup() records for teardown(): the one current before it
\* installs its own.
LoopToSave(t) == current

\* The loop the client is bound to: the server's.
ClientLoop(srv) == srv.io_loop

\* The socket object setup() binds: an unused port when none was asked for.
BoundSocket(t, p) ==
  IF port[t] = NoPort THEN bind_unused_port(p) ELSE bind_sockets(port[t])

\* The error of the bind: binding a port an open socket holds fails.
BindError(t) ==
  IF port[t] # NoPort /\ port[t][1] \in PortsInUse THEN "OSError" ELSE None

\* How far setup() gets: 0 the checks raise, 1..4 the server creation,
\* the client creation, the bind, the attach raises, 5 it completes.
SetupProgress(t, fail, p) ==
  IF SetupCheck(t) # None THEN 0
  ELSE IF fail = "server" THEN 1
  ELSE IF fail = "client" THEN 2
  ELSE IF fail = "bind" \/ BindError(t) # None THEN 3
  ELSE IF fail = "attach" \/ AddSocketError(BoundSocket(t, p)) # None THEN 4
  ELSE 5

\* What setup() raises, or None.
SetupRaises(t, fail, p) ==
  LET n == SetupProgress(t, fail, p) IN
  IF n = 0 THEN SetupCheck(t)
  ELSE IF n = 3 /\ fail # "bind" THEN BindError(t)
  ELSE IF n = 4 /\ fail # "attach" THEN AddSocketError(BoundSocket(t, p))
  ELSE IF n < 5 THEN "OSError"
  ELSE None

\* The effect of setup() on the Tester, the objects and the current loop.
setup(t, fail, p) ==
  LET n == SetupProgress(t, fail, p)
      srv == HTTPServer(io_loop[t])
      cli == http_client_class(ClientLoop(srv))
      sck == BoundSocket(t, p)
  IN
  /\ _used' = IF n >= 1 THEN [_used EXCEPT ![t] = TRUE] ELSE _used
  /\ _last_current' =
       IF n >= 1 THEN [_last_current EXCEPT ![t] = LoopToSave(t)]
       ELSE _last_current
  /\ current' = IF n >= 1 THEN io_loop[t] ELSE current
  /\ _http_server' =
       IF n >= 2 THEN [_http_server EXCEPT ![t] = t] ELSE _http_server
  /\ servers' =
       IF n >= 5 THEN [servers EXCEPT ![t] = [srv EXCEPT !.attached = {t}]]
       ELSE IF n >= 2 THEN [servers EXCEPT ![t] = srv]
       ELSE servers
  /\ _http_client' =
       IF n >= 3 THEN [_http_client EXCEPT ![t] = t] ELSE _http_client
  /\ clients' = IF n >= 3 THEN [clients EXCEPT ![t] = cli] ELSE clients
  /\ _sock' = IF n >= 4 THEN [_sock EXCEPT ![t] = t] ELSE _sock
  /\ sockets' = IF n >= 4 THEN [sockets EXCEPT ![t] = sck] ELSE sockets
  /\ port' = IF n >= 4 THEN [port EXCEPT ![t] = sck.port] ELSE port
  /\ _setup' = IF n >= 5 THEN [_setup EXCEPT ![t] = TRUE] ELSE _setup
  /\ UNCHANGED io_loop
  /\ order' = IF n >= 5 THEN Append(order, t) ELSE order
  /\ nested' = (nested /\ n \in {0, 5})

\* The inputs of one setup() call: where the framework fails, and the port
\* an unused-port bind gets.  Inputs the call never reads are fixed, and so
\* is the port of the very first bind (the ports are interchangeable).
AnyPort == CHOOSE q \in EphemeralPorts : TRUE
NoSocketYet == \A u \in Testers : ~sockets[u].made
SetupInputs(t, fails) ==
  {in \in fails \X EphemeralPorts :
      /\ SetupCheck(t) # None => in[1] = "none"
      /\ IF SetupCheck(t) = None /\ port[t] = NoPort
            /\ in[1] \in {"none", "attach"} /\ ~NoSocketYet
         THEN in[2] \notin PortsInUse
         ELSE in[2] = AnyPort}

(***************************************************************************)
(* Tester.teardown                                                         *)
(***************************************************************************)
TeardownCheck(t) == IF ~_setup[t] THEN ErrNotSetup ELSE None

\* Mutant: teardown() restores nothing.
LoopToRestore_Keep(t) == current

\* Mutant: teardown() always goes back to the initial loop.
LoopToRestore_Initial(t) == InitialLoop

\* The loop teardown() makes current again.
LoopToRestore(t) == _last_current[t]

\* HTTPServer.stop() also closes the sockets attached to the server.
StopServer(s) ==
  /\ servers' = [servers EXCEPT ![s].stopped = TRUE]

CloseSockets(S) ==
  sockets' = [u \in Testers |->
                IF u \in S THEN [sockets[u] EXCEPT !.closed = TRUE]
                ELSE sockets[u]]

teardown(t) ==
  IF TeardownCheck(t) # None
  THEN UNCHANGED <<testerVars, heapVars, current, histVars>>
  ELSE
    /\ clients' = [clients EXCEPT ![_http_client[t]].closed = TRUE]
    /\ StopServer(_http_server[t])
    /\ CloseSockets(servers[_http_server[t]].attached \cup {_sock[t]})
    /\ current' = LoopToRestore(t)
    /\ _last_current' = [_last_current EXCEPT ![t] = None]
    /\ _http_client' = [_http_client EXCEPT ![t] = None]
    /\ _http_server' = [_http_server EXCEPT ![t] = None]
    /\ _sock' = [_sock EXCEPT ![t] = None]
    /\ _setup' = [_setup EXCEPT ![t] = FALSE]
    /\ UNCHANGED <<io_loop, port, _used>>
    /\ order' = SelectSeq(order, LAMBDA u : u # t)
    /\ nested' = (nested /\ order # <<>> /\ order[Len(order)] = t)


(***************************************************************************)
(* Strings, as sequences of characters                                     *)
(***************************************************************************)
HttpPrefix == <<"h", "t", "t", "p", ":", "/", "/">>
HttpsPrefix == <<"h", "t", "t", "p", "s", ":", "/", "/">>
LocalHost == <<"1", "2", "7", ".", "0", ".", "0", ".", "1">>
DigitChar == <<"0", "1", "2", "3", "4", "5", "6", "7", "8", "9">>

\* str.startswith
StartsWith(s, prefix) ==
  Len(s) >= Len(prefix) /\ SubSeq(s, 1, Len(prefix)) = prefix

\* Index of the first c in s, 0 when there is none.
IndexOf(s, c) ==
  IF \E i \in 1..Len(s) : s[i] = c
  THEN CHOOSE i \in 1..Len(s) : s[i] = c /\ \A j \in 1..(i - 1) : s[j] # c
  ELSE 0

\* str(n) of a natural number.
RECURSIVE Decimal(_)
Decimal(n) ==
  IF n < 10 THEN <<DigitChar[n + 1]>>
  ELSE Decimal(n \div 10) \o <<DigitChar[(n % 10) + 1]>>

\* urllib.parse.quote_plus of one character: unreserved characters stay, a
\* space becomes '+', the rest is percent-encoded.
QuoteChar(c) ==
  CASE c = " " -> <<"+">>
    [] c = "&" -> <<"%", "2", "6">>
    [] c = "=" -> <<"%", "3", "D">>
    [] c = "#" -> <<"%", "2", "3">>
    [] c = "?" -> <<"%", "3", "F">>
    [] c = "/" -> <<"%", "2", "F">>
    [] OTHER -> <<c>>

RECURSIVE quote_plus(_)
quote_plus(s) ==
  IF s = <<>> THEN <<>> ELSE QuoteChar(Head(s)) \o quote_plus(Tail(s))

\* urllib.parse.urlencode of a mapping given as a sequence of <<key, value>>.
RECURSIVE urlencode(_)
urlencode(params) ==
  IF params = <<>> THEN <<>>
  ELSE LET kv == quote_plus(Head(params)[1]) \o <<"=">> \o
                 quote_plus(Head(params)[2])
       IN IF Len(params) = 1 THEN kv
          ELSE kv \o <<"&">> \o urlencode(Tail(params))

\* Mutant: the query is appended to the whole URL behind a '?'.
_add_query_params_Append(url, params) ==
  IF params = <<>> THEN url ELSE url \o <<"?">> \o urlencode(params)

\* _add_query_params(url, params)
_add_query_params(url, params) ==
  IF params = <<>> THEN url
  ELSE
    LET query == urlencode(params)
        h == IndexOf(url, "#")
        before == IF h = 0 THEN url ELSE SubSeq(url, 1, h - 1)
        hasFragment == h # 0
        fragment == IF h = 0 THEN <<>> ELSE SubSeq(url, h + 1, Len(url))
        joined == IF IndexOf(before, "?") # 0
                  THEN before \o <<"&">> \o query
                  ELSE before \o <<"?">> \o query
    IN IF hasFragment THEN joined \o <<"#">> \o fragment ELSE joined

(***************************************************************************)
(* The guarded accessors, base_url and url_for                             *)
(***************************************************************************)
\* Mutant: the guard reads the used flag in place of the set-up flag.
PropertyCheck_Used(t) == IF ~_used[t] THEN ErrProperty ELSE None

PropertyCheck(t) == IF ~_setup[t] THEN ErrProperty ELSE None
MethodCheck(t) == IF ~_setup[t] THEN ErrMethod ELSE None

\* sock.getsockname(): only a socket has it, a list of sockets does not.
SockNameError(s) ==
  IF s = None THEN "AttributeError"
  ELSE IF sockets[s].kind # "socket" THEN "AttributeError"
  ELSE None

\* 'http://{0}:{1}'.format(*self.sock.getsockname())
FormatBaseUrl(s) ==
  HttpPrefix \o LocalHost \o <<":">> \o Decimal(sockets[s].port[1])

BaseUrlRaises(t) ==
  IF PropertyCheck(t) # None THEN PropertyCheck(t) ELSE SockNameError(_sock[t])

base_url(t) == FormatBaseUrl(_sock[t])

\* The application under test: its named routes, as in the test suite.
RouteHello == <<"h", "e", "l", "l", "o">>
PathHello == <<"/", "h", "e", "l", "l", "o">>

\* app.reverse_url(name, *args)
ReverseUrlRaises(name, args) ==
  IF name # RouteHello THEN "KeyError"
  ELSE IF args # <<>> THEN "AssertionError"
  ELSE None

reverse_url(name, args) == PathHello

\* Which of the three ways url_for resolves name_or_url.
UrlKind(name_or_url) ==
  IF StartsWith(name_or_url, HttpPrefix) \/ StartsWith(name_or_url, HttpsPrefix)
  THEN "absolute"
  ELSE IF StartsWith(name_or_url, <<"/">>) THEN "path"
  ELSE "route"

UrlForRaises(t, name_or_url, args) ==
  IF MethodCheck(t) # None THEN MethodCheck(t)
  ELSE IF UrlKind(name_or_url) = "absolute" THEN None
  ELSE IF BaseUrlRaises(t) # None THEN BaseUrlRaises(t)
  ELSE IF UrlKind(name_or_url) = "path" THEN None
  ELSE ReverseUrlRaises(name_or_url, args)

url_for(t, name_or_url, args, kwargs) ==
  LET url == CASE UrlKind(name_or_url) = "absolute" -> name_or_url
               [] UrlKind(name_or_url) = "path" -> base_url(t) \o name_or_url
               [] OTHER -> base_url(t) \o reverse_url(name_or_url, args)
  IN _add_query_params(url, kwargs)


(***************************************************************************)
(* Calls on a Tester made by the running test code                         *)
(***************************************************************************)
\* Test code runs before the wrapped call and inside the test body, while
\* the generator (or the plain function) has control.
CodeRuns == pc \in {"idle", "plain", "gen"}
Running == CodeRuns /\ exc = None

Setup(t, fails) ==
  /\ Running
  /\ \E in \in SetupInputs(t, fails) :
       /\ setup(t, in[1], in[2])
       /\ ret' = [op |-> "setup", self |-> t,
                  raised |-> SetupRaises(t, in[1], in[2]), value |-> NoValue]
       /\ exc' = SetupRaises(t, in[1], in[2])
  /\ UNCHANGED <<stack, genVars>>

Teardown(t) ==
  /\ Running
  /\ teardown(t)
  /\ ret' = [op |-> "teardown", self |-> t, raised |-> TeardownCheck(t),
             value |-> NoValue]
  /\ exc' = TeardownCheck(t)
  /\ UNCHANGED <<stack, genVars>>

\* The properties sock, http_server and http_client.
Properties == {"sock", "http_server", "http_client"}

PropertyValue(t, name) ==
  CASE name = "sock" -> _sock[t]
    [] name = "http_server" -> _http_server[t]
    [] name = "http_client" -> _http_client[t]

GetProperty(t, name) ==
  /\ Running
  /\ ret' = [op |-> name, self |-> t, raised |-> PropertyCheck(t),
             value |-> IF PropertyCheck(t) = None
                       THEN Returned(PropertyValue(t, name)) ELSE NoValue]
  /\ exc' = PropertyCheck(t)
  /\ UNCHANGED <<testerVars, heapVars, current, histVars, stack, genVars>>

GetBaseUrl(t) ==
  /\ Running
  /\ ret' = [op |-> "base_url", self |-> t, raised |-> BaseUrlRaises(t),
             value |-> IF BaseUrlRaises(t) = None
                       THEN Returned(base_url(t)) ELSE NoValue]
  /\ exc' = BaseUrlRaises(t)
  /\ UNCHANGED <<testerVars, heapVars, current, histVars, stack, genVars>>

\* The calls of url_for the test code makes: <<name_or_url, args, kwargs>>.
KwNone == <<>>
KwOne == << <<<<"q">>, <<"v", " ", "w">>>> >>
KwTwo == << <<<<"q">>, <<"1">>>>, <<<<"r">>, <<"&">>>> >>
UrlCalls ==
  { <<HttpsPrefix \o <<"g">>, <<>>, KwNone>>,
    <<HttpPrefix \o <<"g", "#", "f">>, <<>>, KwOne>>,
    <<<<"h", "t", "t", "p">>, <<>>, KwNone>>,
    <<<<"/", "a">>, <<>>, KwTwo>>,
    <<<<"/", "a", "?", "b">>, <<>>, KwOne>>,
    <<<<"/", "a", "#", "f", "?">>, <<>>, KwOne>>,
    <<<<"/", "a", "?", "b", "#", "f">>, <<>>, KwTwo>>,
    <<RouteHello, <<>>, KwNone>>,
    <<RouteHello, <<>>, KwOne>>,
    <<RouteHello, <<<<"x">>>>, KwNone>> }

UrlFor(t) ==
  /\ Running
  /\ \E c \in UrlCalls :
       /\ ret' = [op |-> "url_for", self |-> t,
                  raised |-> UrlForRaises(t, c[1], c[2]),
                  value |-> IF UrlForRaises(t, c[1], c[2]) = None
                            THEN Returned(url_for(t, c[1], c[2], c[3]))
                            ELSE NoValue]
       /\ exc' = UrlForRaises(t, c[1], c[2])
  /\ UNCHANGED <<testerVars, heapVars, current, histVars, stack, genVars>>

(***************************************************************************)
(* with tester: ...                                                        *)
(***************************************************************************)
\* What __enter__ returns: self.
EnterValue(t) == t

\* __enter__: setup(), then the Tester itself is what the scope yields.  A
\* setup() that raises leaves the scope not entered.
Enter(t, fails) ==
  /\ Running
  /\ Len(stack) < MaxDepth
  /\ \E in \in SetupInputs(t, fails) :
       LET raised == SetupRaises(t, in[1], in[2]) IN
       /\ setup(t, in[1], in[2])
       /\ ret' = [op |-> "__enter__", self |-> t, raised |-> raised,
                  value |-> IF raised = None THEN Returned(EnterValue(t))
                            ELSE NoValue]
       /\ exc' = raised
       /\ stack' = IF raised = None THEN Append(stack, t) ELSE stack
  /\ UNCHANGED genVars

\* Mutant: __exit__ returns a true value.
ExitValue_True(t) == TRUE

\* What __exit__ returns: nothing, so the exception of the body is not
\* suppressed.
ExitValue(t) == FALSE

\* Whether __exit__ calls teardown(), given the exception of the body.
ExitTearsDown(t, bodyExc) == TRUE

\* __exit__: the body is left, normally (exc = None) or by an exception.
Exit(t) ==
  /\ CodeRuns
  /\ stack # <<>>
  /\ t = stack[Len(stack)]
  /\ stack' = SubSeq(stack, 1, Len(stack) - 1)
  /\ IF ExitTearsDown(t, exc)
     THEN /\ teardown(t)
          /\ ret' = [op |-> "__exit__", self |-> t,
                     raised |-> TeardownCheck(t), value |-> NoValue]
          /\ exc' = IF TeardownCheck(t) # None THEN TeardownCheck(t)
                    ELSE IF ExitValue(t) THEN None
                    ELSE exc
     ELSE /\ UNCHANGED <<testerVars, heapVars, current, histVars>>
          /\ ret' = [op |-> "__exit__", self |-> t, raised |-> None,
                     value |-> NoValue]
          /\ exc' = IF ExitValue(t) THEN None ELSE exc
  /\ UNCHANGED genVars

\* The test body raises (a failed assertion), inside a scope or inside the
\* wrapped function.
BodyErrors == {"AssertionError"}

Raise(e) ==
  /\ Running
  /\ stack # <<>> \/ pc \in {"plain", "gen"}
  /\ exc' = e
  /\ UNCHANGED <<testerVars, heapVars, current, histVars, ret, stack,
                 genVars>>

\* The test code catches the exception that is propagating (try/except,
\* pytest.raises).
Catch ==
  /\ CodeRuns
  /\ exc # None
  /\ exc' = None
  /\ UNCHANGED <<testerVars, heapVars, current, histVars, ret, stack,
                 genVars>>

(***************************************************************************)
(* Specification of the Tester life cycle                                  *)
(***************************************************************************)
NoReceive == [kind |-> "none", value |-> None]
NoExit == [kind |-> "none", value |-> None]

Init ==
  /\ TesterInit
  /\ current = InitialLoop
  /\ order = <<>>
  /\ nested = TRUE
  /\ ret = NoCall
  /\ stack = <<>>
  /\ exc = None
  /\ pc = "idle"
  /\ stage = "none"
  /\ captured = None
  /\ value = 0
  /\ receive = NoReceive
  /\ nyield = 0
  /\ awaited = <<>>
  /\ ninject = 0
  /\ genexit = NoExit
  /\ outcome = NoExit

Next ==
  \/ \E t \in Testers : Setup(t, FailPoints)
  \/ \E t \in Testers : Teardown(t)
  \/ \E t \in Testers : Enter(t, FailPoints)
  \/ \E t \in Testers : Exit(t)
  \/ \E e \in BodyErrors : Raise(e)
  \/ Catch

Spec == Init /\ [][Next]_vars

(***************************************************************************)
(* Specification of the accessors: the life cycle calls and the reads      *)
(***************************************************************************)
NextAccess ==
  \/ \E t \in Testers : Setup(t, FailPoints)
  \/ \E t \in Testers : Teardown(t)
  \/ \E t \in Testers, name \in Properties : GetProperty(t, name)
  \/ \E t \in Testers : GetBaseUrl(t)
  \/ \E t \in Testers : UrlFor(t)
  \/ Catch

SpecAccess == Init /\ [][NextAccess]_vars


(***************************************************************************)
(* AsyncHTTPClient.fetch: the request options handed to the base fetch     *)
(***************************************************************************)
\* A keyword argument that was not passed, and one that was.
Absent == <<>>
Given(x) == <<x>>

\* Python truthiness of an optional mapping: None and {} are false.
Truthy(opt) == opt # Absent /\ opt[1] # <<>>

FormContentType ==
  <<"a", "p", "p", "l", "i", "c", "a", "t", "i", "o", "n", "/", "x",
    "-", "w", "w", "w", "-", "f", "o", "r", "m", "-", "u", "r", "l",
    "e", "n", "c", "o", "d", "e", "d">>
MultipartPrefix ==
  <<"m", "u", "l", "t", "i", "p", "a", "r", "t", "/", "f", "o", "r",
    "m", "-", "d", "a", "t", "a", ";", " ", "b", "o", "u", "n", "d",
    "a", "r", "y", "=">>
DispositionPrefix ==
  <<"C", "o", "n", "t", "e", "n", "t", "-", "D", "i", "s", "p", "o",
    "s", "i", "t", "i", "o", "n", ":", " ", "f", "o", "r", "m", "-",
    "d", "a", "t", "a", ";", " ", "n", "a", "m", "e", "=", "\"">>
FilenamePrefix ==
  <<"\"", ";", " ", "f", "i", "l", "e", "n", "a", "m", "e", "=",
    "\"">>
DoubleQuote == <<"\"">>
Dashes == <<"-", "-">>
CRLF == <<"\r", "\n">>

\* random_boundary(): '---' + random characters + '---'.
Boundaries ==
  { <<"-", "-", "-", "a", "B", "-", "-", "-">>,
    <<"-", "-", "-", "_", "9", "z", "-", "-", "-">> }

\* The lines encode_multipart makes of the form fields.
RECURSIVE FormLines(_, _)
FormLines(form, boundary) ==
  IF form = <<>> THEN <<>>
  ELSE << Dashes \o boundary,
          DispositionPrefix \o Head(form)[1] \o DoubleQuote,
          <<>>,
          Head(form)[2] >> \o FormLines(Tail(form), boundary)

\* The lines encode_multipart makes of the files: <<key, filename, content>>.
RECURSIVE FileLines(_, _)
FileLines(files, boundary) ==
  IF files = <<>> THEN <<>>
  ELSE << Dashes \o boundary,
          DispositionPrefix \o Head(files)[1] \o FilenamePrefix \o
            Head(files)[2] \o DoubleQuote,
          <<>>,
          Head(files)[3] >> \o FileLines(Tail(files), boundary)

\* b'\r\n'.join(lines)
RECURSIVE JoinLines(_)
JoinLines(lines) ==
  IF lines = <<>> THEN <<>>
  ELSE IF Len(lines) = 1 THEN Head(lines)
  ELSE Head(lines) \o CRLF \o JoinLines(Tail(lines))

encode_multipart(form, files, boundary) ==
  JoinLines(FormLines(form, boundary) \o FileLines(files, boundary) \o
            << Dashes \o boundary \o Dashes, <<>> >>)

\* headers[name] = v on a mapping from header names to values.
SetHeader(headers, name, v) ==
  [h \in DOMAIN headers \cup {name} |-> IF h = name THEN v ELSE headers[h]]

\* kwargs.pop('headers', {})
PopHeaders(kw) == IF kw.headers = Absent THEN <<>> ELSE kw.headers[1]

\* kwargs.setdefault('method', 'POST')
DefaultMethod(kw) == IF kw.method = Absent THEN Given("POST") ELSE kw.method


\* Which branch fetch takes: the tests are 'if form and not files' and
\* 'elif files'.
FetchBranch(kw) ==
  IF Truthy(kw.form) /\ ~Truthy(kw.files) THEN "form"
  ELSE IF Truthy(kw.files) THEN "files"
  ELSE "base"

\* The keyword arguments super().fetch gets, form and files popped.
fetch(kw, boundary) ==
  CASE FetchBranch(kw) = "form" ->
         LET body == urlencode(kw.form[1]) IN
         [method |-> DefaultMethod(kw),
          body |-> Given(body),
          headers |-> Given(SetHeader(SetHeader(PopHeaders(kw),
                        "Content-Type", FormContentType),
                        "Content-Length", Decimal(Len(body))))]
    [] FetchBranch(kw) = "files" ->
         LET form == IF Truthy(kw.form) THEN kw.form[1] ELSE <<>>
             body == encode_multipart(form, kw.files[1], boundary)
         IN
         [method |-> DefaultMethod(kw),
          body |-> Given(body),
          headers |-> Given(SetHeader(SetHeader(PopHeaders(kw),
                        "Content-Type", MultipartPrefix \o boundary),
                        "Content-Length", Decimal(Len(body))))]
    [] OTHER ->
         [method |-> kw.method, body |-> kw.body, headers |-> kw.headers]

\* The fetch calls the test code makes on a Tester's client.
FormOptions ==
  {Absent, Given(<<>>), Given(<< <<<<"k">>, <<"v", " ", "w">>>> >>)}
FileOptions ==
  {Absent, Given(<<>>),
   Given(<< <<<<"f">>, <<"h", ".", "t">>, <<"H", "i">>>> >>)}
HeaderOptions == {Absent, Given([h \in {"Accept"} |-> <<"*">>])}
FetchInputs ==
  {kw \in [form : FormOptions, files : FileOptions,
           method : {Absent, Given("PUT")}, headers : HeaderOptions,
           body : {Absent, Given(<<"x">>)}] :
      kw.body # Absent => kw.form = Absent /\ kw.files = Absent}

\* tester.http_client.fetch(url, **kw): the outcome keeps the keyword
\* arguments of the call and those super().fetch was called with.
Fetch(t, kw) ==
  /\ Running
  /\ \E boundary \in Boundaries :
       ret' = [op |-> "fetch", self |-> t, raised |-> PropertyCheck(t),
               value |-> IF PropertyCheck(t) = None
                         THEN <<kw, fetch(kw, boundary)>> ELSE NoValue]
  /\ exc' = PropertyCheck(t)
  /\ UNCHANGED <<testerVars, heapVars, current, histVars, stack, genVars>>

NextFetch ==
  \/ \E t \in Testers : Setup(t, {"none"})
  \/ \E t \in Testers : Teardown(t)
  \/ \E t \in Testers, kw \in FetchInputs : Fetch(t, kw)
  \/ Catch

\* The Testers of the fetch calls: on the initial loop, without a fixed
\* port.
InitFetch ==
  Init /\ \A t \in Testers : port[t] = NoPort /\ io_loop[t] = InitialLoop

SpecFetch == InitFetch /\ [][NextFetch]_vars


(***************************************************************************)
(* gen_test: the wrapper and the coroutine with_ioloop                     *)
(*                                                                         *)
(* pc: "idle" before the wrapped call, "plain" a non-generator function    *)
(* runs, "gen" the generator runs (after next, send or throw), "got" the   *)
(* generator has yielded and the adapter has the value, "await" the        *)
(* adapter awaits value under the loop, "done" the wrapped call is over.   *)
(* stage: the advance in progress, "first" (next), "step" (the send or     *)
(* throw of an await's outcome), "inject" (the throw of the cross-loop      *)
(* error).                                                                  *)
(***************************************************************************)
\* What the test function returns, and what awaiting may raise.
ReturnValues == {None, "result"}
AwaitErrors == {"HTTPError"}

\* The result of awaiting the k-th yielded value.
Result(k) == <<"result of", k>>

\* The arguments the wrapped function is called with: none, or a fixture.
CallArgs == {<<>>, <<"tester">>}

\* fn(*args, **kwargs): the arguments of the wrapped call, as they are.
PassArgs(args) == args

\* wrapper: a generator function is driven, any other is called through.
\* Either way the test function is called, once, with the arguments.
Call(isgenerator, args) ==
  /\ pc = "idle"
  /\ exc = None
  /\ stack = <<>>
  /\ pc' = IF isgenerator THEN "gen" ELSE "plain"
  /\ stage' = IF isgenerator THEN "first" ELSE "none"
  /\ receive' = [kind |-> "call", value |-> PassArgs(args)]
  /\ UNCHANGED <<testerVars, heapVars, current, histVars, ret, scopeVars,
                 captured, value, nyield, awaited, ninject, genexit,
                 outcome>>

\* Mutant: the return value of the function is dropped.
PlainResult_None(v) == None

\* What the wrapped call returns when fn is no generator function and
\* returns v: return fn(*args, **kwargs)
PlainResult(v) == v

\* The plain test function returns v.
PlainReturn(v) ==
  /\ pc = "plain"
  /\ exc = None
  /\ stack = <<>>
  /\ pc' = "done"
  /\ genexit' = [kind |-> "return", value |-> v]
  /\ outcome' = [kind |-> "return", value |-> PlainResult(v)]
  /\ UNCHANGED <<testerVars, heapVars, current, histVars, ret, scopeVars,
                 stage, captured, value, receive, nyield, awaited, ninject>>

\* The generator yields its next value: next, send or throw returns it.
GenYield ==
  /\ pc = "gen"
  /\ exc = None
  /\ nyield < MaxYields
  /\ nyield' = nyield + 1
  /\ value' = nyield + 1
  /\ pc' = "got"
  /\ UNCHANGED <<testerVars, heapVars, current, histVars, ret, scopeVars,
                 stage, captured, receive, awaited, ninject, genexit,
                 outcome>>

\* The loop the coroutine is run on: io_loop.run_sync(with_ioloop).
RunLoop == captured

\* The adapter starts awaiting value: yield value.  The log keeps, for each
\* await, the value, the loop it is run on and, once known, how it ended.
StartAwait(loop) ==
  /\ pc' = "await"
  /\ awaited' = Append(awaited, [id |-> value, under |-> loop,
                                 result |-> "pending"])

\* io_loop = IOLoop.current(), right after the first advance; then the
\* coroutine starts and awaits first.
CaptureLoop ==
  /\ pc = "got"
  /\ stage = "first"
  /\ captured' = current
  /\ StartAwait(captured')
  /\ UNCHANGED <<testerVars, heapVars, current, histVars, ret, scopeVars,
                 stage, value, receive, nyield, ninject, genexit, outcome>>

\* Mutant: the cross-loop check is missing.
LoopChanged_Never == FALSE

\* Mutant: the check compares with the loop the process started with.
LoopChanged_Initial == current # InitialLoop

\* if IOLoop.current() != io_loop
LoopChanged == current # captured

\* After the send or throw of an await's outcome: the cross-loop check.  A
\* changed loop throws the error into the generator in place of the await.
CheckLoop ==
  /\ pc = "got"
  /\ stage = "step"
  /\ IF LoopChanged
     THEN /\ pc' = "gen"
          /\ stage' = "inject"
          /\ exc' = ErrMultiLoop
          /\ receive' = [kind |-> "throw", value |-> ErrMultiLoop]
          /\ ninject' = ninject + 1
          /\ UNCHANGED awaited
     ELSE /\ StartAwait(RunLoop)
          /\ UNCHANGED <<stage, exc, receive, ninject>>
  /\ UNCHANGED <<testerVars, heapVars, current, histVars, ret, stack,
                 captured, value, nyield, genexit, outcome>>

\* Whether the value the generator yields in reply to the thrown cross-loop
\* error is checked again: the loop goes straight back to yield value.
RecheckAfterInject == FALSE

AfterInject ==
  /\ pc = "got"
  /\ stage = "inject"
  /\ IF RecheckAfterInject /\ LoopChanged
     THEN /\ pc' = "gen"
          /\ exc' = ErrMultiLoop
          /\ receive' = [kind |-> "throw", value |-> ErrMultiLoop]
          /\ ninject' = ninject + 1
          /\ UNCHANGED awaited
     ELSE /\ StartAwait(RunLoop)
          /\ UNCHANGED <<exc, receive, ninject>>
  /\ UNCHANGED <<testerVars, heapVars, current, histVars, ret, stack, stage,
                 captured, value, nyield, genexit, outcome>>

\* Mutant: the generator is advanced without the result.
SendValue_Nothing(r) == <<>>

\* What the generator is resumed with when the await succeeded: the result.
SendValue(r) == r

\* receive = (yield value) succeeded: generator.send(receive)
AwaitOk ==
  /\ pc = "await"
  /\ receive' = [kind |-> "send", value |-> SendValue(Result(value))]
  /\ awaited' = [awaited EXCEPT ![Len(awaited)].result = "ok"]
  /\ pc' = "gen"
  /\ stage' = "step"
  /\ UNCHANGED <<testerVars, heapVars, current, histVars, ret, scopeVars,
                 captured, value, nyield, ninject, genexit, outcome>>

\* Mutant: another error is thrown in place of the one caught.
ThrownError_Generic(e) == "Exception"

\* What the adapter does with the error of a failed await: it throws it
\* into the generator.
ThrownError(e) == e

\* (yield value) raised e: generator.throw(e)
AwaitFail(e) ==
  /\ pc = "await"
  /\ receive' = [kind |-> "throw", value |-> ThrownError(e)]
  /\ exc' = ThrownError(e)
  /\ awaited' = [awaited EXCEPT ![Len(awaited)].result = e]
  /\ pc' = "gen"
  /\ stage' = "step"
  /\ UNCHANGED <<testerVars, heapVars, current, histVars, ret, stack,
                 captured, value, nyield, ninject, genexit, outcome>>

\* How the wrapped call ends when the generator finishes with value v:
\* the StopIteration of the first advance is not handled, a later one is
\* turned into the return value.
OnStopIteration(v) ==
  IF stage = "first" THEN [kind |-> "raise", value |-> "StopIteration"]
  ELSE [kind |-> "return", value |-> v]

\* The generator returns v (all its scopes left).
GenReturn(v) ==
  /\ pc = "gen"
  /\ exc = None
  /\ stack = <<>>
  /\ genexit' = [kind |-> "return", value |-> v]
  /\ outcome' = OnStopIteration(v)
  /\ pc' = "done"
  /\ UNCHANGED <<testerVars, heapVars, current, histVars, ret, scopeVars,
                 stage, captured, value, receive, nyield, awaited, ninject>>

\* Mutant: the escaping error is swallowed and the call returns.
OnError_Swallow(e) == [kind |-> "return", value |-> None]

\* How the wrapped call ends when the test function lets e escape: neither
\* next() nor the coroutine handles anything but StopIteration.
OnError(e) == [kind |-> "raise", value |-> e]

\* An exception leaves the test function: the wrapped call raises it, and
\* the test runner has it.
Propagate ==
  /\ pc \in {"plain", "gen"}
  /\ exc # None
  /\ stack = <<>>
  /\ genexit' = [kind |-> "raise", value |-> exc]
  /\ outcome' = OnError(exc)
  /\ exc' = None
  /\ pc' = "done"
  /\ UNCHANGED <<testerVars, heapVars, current, histVars, ret, stack, stage,
                 captured, value, receive, nyield, awaited, ninject>>

NextGen ==
  \/ \E t \in Testers : Setup(t, {"none"})
  \/ \E t \in Testers : Teardown(t)
  \/ \E t \in Testers : Enter(t, {"none"})
  \/ \E t \in Testers : Exit(t)
  \/ \E e \in BodyErrors : Raise(e)
  \/ Catch
  \/ \E g \in BOOLEAN, a \in CallArgs : Call(g, a)
  \/ \E v \in ReturnValues : PlainReturn(v)
  \/ GenYield
  \/ CaptureLoop
  \/ CheckLoop
  \/ AfterInject
  \/ AwaitOk
  \/ \E e \in AwaitErrors : AwaitFail(e)
  \/ \E v \in ReturnValues : GenReturn(v)
  \/ Propagate

\* The Testers of a driven test: made without a fixed port.
InitGen == Init /\ \A t \in Testers : port[t] = NoPort

SpecGen == InitGen /\ [][NextGen]_vars


(***************************************************************************)
(* Properties of the Tester life cycle                                     *)
(***************************************************************************)
\* A step in which setup() is called on t, directly or by __enter__.
SetupStep(t) == Setup(t, FailPoints) \/ Enter(t, FailPoints)

\* A step in which teardown() is called on t, directly or by __exit__.
TeardownStep(t) == Teardown(t) \/ Exit(t)

Fresh(t) == ~_setup[t] /\ ~_used[t]
Active(t) == _setup[t]
TornDown(t) == ~_setup[t] /\ _used[t]

\* C1: setup() succeeds at most once on a Tester.  A used Tester never
\* becomes fresh again, a torn-down Tester never becomes active again, and
\* every setup() on a Tester that was used before raises a RuntimeError.
C1_SetupAtMostOnce ==
  [][\A t \in Testers :
       /\ _used[t] => _used'[t]
       /\ TornDown(t) => ~Active(t)'
       /\ Active(t)' /\ ~Active(t) => Fresh(t)
       /\ SetupStep(t) /\ _used[t] =>
            /\ ret'.raised \in RuntimeErrors
            /\ exc' = ret'.raised]_vars

\* C1 witness: a Tester that was set up and torn down (its socket was made
\* and is closed) has just refused a setup() as reuse.
C1_Witness ==
  /\ ret.op = "setup"
  /\ ret.raised = ErrReuse
  /\ TornDown(ret.self)
  /\ sockets[ret.self].made /\ sockets[ret.self].closed

\* C3: a successful setup() leaves the Tester active, its loop current, the
\* loop that was current before the call saved, and the server, socket and
\* client present, the socket attached to the server and the client on the
\* server's loop.
C3_SetupPostcondition ==
  [][\A t \in Testers :
       SetupStep(t) /\ ret'.raised = None =>
         /\ Fresh(t)
         /\ Active(t)'
         /\ _used'[t]
         /\ current' = io_loop[t]
         /\ _last_current'[t] = current
         /\ _http_server'[t] # None
         /\ _http_client'[t] # None
         /\ _sock'[t] # None
         /\ servers'[_http_server'[t]].made
         /\ servers'[_http_server'[t]].io_loop = io_loop[t]
         /\ ~servers'[_http_server'[t]].stopped
         /\ sockets'[_sock'[t]].made
         /\ sockets'[_sock'[t]].kind = "socket"
         /\ ~sockets'[_sock'[t]].closed
         /\ _sock'[t] \in servers'[_http_server'[t]].attached
         /\ clients'[_http_client'[t]].made
         /\ ~clients'[_http_client'[t]].closed
         /\ clients'[_http_client'[t]].io_loop
              = servers'[_http_server'[t]].io_loop]_vars

\* C3 witness: a setup() has just succeeded on a Tester whose loop was not
\* the current one, while another loop than the initial one was current.
C3_Witness ==
  /\ ret.op = "setup"
  /\ ret.raised = None
  /\ Active(ret.self)
  /\ _last_current[ret.self] # io_loop[ret.self]
  /\ _last_current[ret.self] # InitialLoop
  /\ current = io_loop[ret.self]

\* C4: a successful teardown() closes the client, stops the server, closes
\* the socket, makes current the loop saved by this Tester's setup() (which
\* nothing changed while the Tester was active), clears the saved loop and
\* the three handles, and leaves the Tester torn down.
C4_TeardownPostcondition ==
  [][\A t \in Testers :
       /\ Active(t) /\ Active(t)' => _last_current'[t] = _last_current[t]
       /\ TeardownStep(t) /\ ret'.raised = None =>
            /\ Active(t)
            /\ clients'[_http_client[t]].closed
            /\ servers'[_http_server[t]].stopped
            /\ sockets'[_sock[t]].closed
            /\ current' = _last_current[t]
            /\ _last_current'[t] = None
            /\ _http_client'[t] = None
            /\ _http_server'[t] = None
            /\ _sock'[t] = None
            /\ TornDown(t)']_vars

\* C4 witness: a teardown() has just succeeded and put back a loop that is
\* neither the Tester's own nor the initial one.
C4_Witness ==
  /\ ret.op = "teardown"
  /\ ret.raised = None
  /\ TornDown(ret.self)
  /\ clients[ret.self].closed
  /\ current # io_loop[ret.self]
  /\ current # InitialLoop

\* The loop of the innermost active Tester, the initial loop when there is
\* none.
InnermostLoop ==
  IF order = <<>> THEN InitialLoop ELSE io_loop[order[Len(order)]]

\* C5: as long as the setup/teardown pairs are properly nested (every
\* teardown is of the Tester set up last, and no setup() was cut short by
\* the framework), the current loop is the loop of the innermost active
\* Tester, and the loop current before the outermost setup once none is
\* active.
C5_NestedLoops == nested => current = InnermostLoop

\* C5 witness: two Testers with different loops, neither the initial one,
\* have been set up and torn down in nested order.
C5_Witness ==
  /\ nested
  /\ order = <<>>
  /\ \A t \in Testers : TornDown(t) /\ sockets[t].closed
  /\ io_loop["t1"] # io_loop["t2"]
  /\ \A t \in Testers : io_loop[t] # InitialLoop
  /\ current = InitialLoop

\* C6: a life cycle misuse raises a RuntimeError and changes nothing:
\* setup() on a Tester that is active or was used, teardown() on a Tester
\* that is not active.
C6_MisuseChangesNothing ==
  [][\A t \in Testers :
       /\ SetupStep(t) /\ Active(t) =>
            /\ ret'.raised = ErrAlreadySetup
            /\ exc' = ErrAlreadySetup
            /\ UNCHANGED <<testerVars, heapVars, current>>
       /\ SetupStep(t) /\ TornDown(t) =>
            /\ ret'.raised = ErrReuse
            /\ exc' = ErrReuse
            /\ UNCHANGED <<testerVars, heapVars, current>>
       /\ TeardownStep(t) /\ ~Active(t) =>
            /\ ret'.raised = ErrNotSetup
            /\ exc' = ErrNotSetup
            /\ UNCHANGED <<testerVars, heapVars, current>>]_vars

\* C6 witness: a second teardown() has just been refused while the other
\* Tester is active.
C6_Witness ==
  /\ ret.op = "teardown"
  /\ ret.raised = ErrNotSetup
  /\ TornDown(ret.self)
  /\ sockets[ret.self].closed
  /\ \E u \in Testers : Active(u)


(***************************************************************************)
(* Properties of the accessors                                             *)
(***************************************************************************)
AccessorOps == Properties \cup {"base_url", "url_for"}

\* Whether the object a property returned is live: made, and neither
\* closed nor stopped.
Live(op, h) ==
  CASE op = "sock" -> sockets[h].made /\ ~sockets[h].closed
    [] op = "http_server" -> servers[h].made /\ ~servers[h].stopped
    [] op = "http_client" -> clients[h].made /\ ~clients[h].closed

EnterPerformsSetup(t) ==
  Enter(t, FailPoints) =>
    IF ret'.raised = None
    THEN /\ Fresh(t) /\ Active(t)'
         /\ ret'.value = Returned(t)
         /\ stack' = Append(stack, t)
         /\ exc' = None
    ELSE /\ stack' = stack
         /\ exc' = ret'.raised
         /\ ~Active(t)' \/ Active(t)

\* C7 as stated: leaving the scope tears the Tester down, once, and an
\* exception of the body is what leaves the scope.
C7_ScopeAsStated ==
  [][\A t \in Testers :
       /\ EnterPerformsSetup(t)
       /\ Exit(t) =>
            /\ ~Active(t)'
            /\ exc # None => exc' = exc]_vars

\* C7, amended: leaving the scope calls teardown() once.  If the Tester is
\* still active it is torn down and the exception of the body (or none)
\* leaves the scope unchanged; if the body has torn it down already, the
\* RuntimeError of teardown() leaves the scope instead.  An exception of
\* the body is never turned into a normal exit.
C7_ScopeTeardown ==
  [][\A t \in Testers :
       /\ EnterPerformsSetup(t)
       /\ Exit(t) =>
            /\ ~Active(t)'
            /\ IF Active(t)
               THEN /\ TornDown(t)'
                    /\ ret'.raised = None
                    /\ current' = _last_current[t]
                    /\ exc' = exc
               ELSE /\ ret'.raised = ErrNotSetup
                    /\ exc' = ErrNotSetup
                    /\ UNCHANGED <<testerVars, heapVars, current>>
            /\ exc # None => exc' # None]_vars

\* C7 witness: the body raised, and leaving the scope has torn the Tester
\* down while the exception of the body goes on propagating.
C7_Witness ==
  /\ ret.op = "__exit__"
  /\ ret.raised = None
  /\ TornDown(ret.self)
  /\ sockets[ret.self].closed
  /\ exc = "AssertionError"


(***************************************************************************)
(* Properties of gen_test                                                  *)
(***************************************************************************)
LastAwait == awaited[Len(awaited)]

\* C8: a generator test body is pumped in order.  Every await runs on the
\* captured loop and no value is awaited twice; as long as no cross-loop
\* error was thrown, the awaited values are exactly the yielded ones, in
\* order; the result of the k-th await is what the generator is resumed
\* with before it yields the (k+1)-th value; and the wrapped call returns
\* only once the generator has finished, with the generator's return value.
C8_PumpInOrder ==
  stage # "none" =>
    /\ \A i \in DOMAIN awaited : awaited[i].under = captured
    /\ \A i, j \in DOMAIN awaited : i < j => awaited[i].id < awaited[j].id
    /\ ninject = 0 =>
         /\ \A i \in DOMAIN awaited : awaited[i].id = i
         /\ Len(awaited) = IF pc = "got" THEN nyield - 1 ELSE nyield
    /\ pc = "await" =>
         /\ value = nyield
         /\ LastAwait.id = value
         /\ LastAwait.result = "pending"
    /\ pc = "gen" /\ stage = "step" /\ receive.kind = "send" =>
         /\ receive.value = Result(nyield)
         /\ LastAwait.id = nyield
         /\ LastAwait.result = "ok"
    /\ pc = "got" /\ stage = "step" /\ receive.kind = "send" =>
         /\ receive.value = Result(nyield - 1)
         /\ LastAwait.id = nyield - 1
    /\ pc # "done" => outcome = NoExit /\ genexit = NoExit
    /\ pc = "done" => genexit.kind # "none"
    /\ outcome.kind = "return" =>
         /\ pc = "done"
         /\ genexit.kind = "return"
         /\ outcome.value = genexit.value

\* C8 witness: the wrapped call has returned the generator's value after
\* every one of its yields was awaited successfully, in order.
C8_Witness ==
  /\ pc = "done"
  /\ outcome = [kind |-> "return", value |-> "result"]
  /\ ninject = 0
  /\ Len(awaited) = MaxYields
  /\ \A i \in DOMAIN awaited : awaited[i].id = i /\ awaited[i].result = "ok"

\* C9: when an await fails, the error itself is thrown into the generator
\* and the wrapped call goes on; when the generator catches it and yields
\* again on the captured loop, the new value is awaited; the wrapped call
\* raises only what the generator lets escape.
C9_ErrorsThrownIn ==
  [][/\ pc = "await" /\ pc' # "await" /\ awaited'[Len(awaited)].result # "ok" =>
          /\ awaited'[Len(awaited)].result \in AwaitErrors
          /\ exc' = awaited'[Len(awaited)].result
          /\ receive' = [kind |-> "throw", value |-> exc']
          /\ pc' = "gen"
          /\ stack' = stack
          /\ outcome' = NoExit /\ genexit' = NoExit
     /\ pc = "got" /\ stage = "step" /\ receive.kind = "throw"
          /\ current = captured /\ pc' # pc =>
          /\ pc' = "await"
          /\ awaited' = Append(awaited, [id |-> nyield, under |-> captured,
                                         result |-> "pending"])
          /\ value' = nyield
     /\ stage \in {"step", "inject"} /\ outcome = NoExit
          /\ outcome'.kind = "raise" =>
          /\ exc # None
          /\ outcome'.value = exc
          /\ genexit' = outcome']_vars

\* C9 witness: every await of the test failed, the generator caught each
\* error, and the wrapped call returned normally.
C9_Witness ==
  /\ pc = "done"
  /\ outcome.kind = "return"
  /\ Len(awaited) = MaxYields
  /\ \A i \in DOMAIN awaited : awaited[i].result = "HTTPError"

\* C10: the loop is captured right after the first advance and never
\* again; after every send or throw of an await's outcome, a current loop
\* other than the captured one makes the adapter throw the cross-loop
\* RuntimeError into the generator, and the value just yielded is not
\* awaited.
C10_CrossLoopCheck ==
  [][/\ pc = "got" /\ stage = "first" /\ pc' # pc => captured' = current
     /\ captured # None => captured' = captured
     /\ pc = "got" /\ stage = "step" /\ pc' # pc =>
          IF current # captured
          THEN /\ pc' = "gen"
               /\ stage' = "inject"
               /\ exc' = ErrMultiLoop
               /\ receive' = [kind |-> "throw", value |-> ErrMultiLoop]
               /\ awaited' = awaited
               /\ ninject' = ninject + 1
          ELSE /\ pc' = "await"
               /\ Len(awaited') = Len(awaited) + 1
               /\ ninject' = ninject]_vars

\* C10 witness: a test used a Tester, left its scope, entered the scope of
\* a second Tester with a loop of its own and yielded: the cross-loop error
\* has been thrown in at that yield, which was not awaited.
C10_Witness ==
  /\ pc = "gen"
  /\ stage = "inject"
  /\ exc = ErrMultiLoop
  /\ ninject = 1
  /\ nyield = 2
  /\ Len(awaited) = 1
  /\ \E t, u \in Testers :
       /\ stack = <<u>>
       /\ Active(u) /\ TornDown(t) /\ sockets[t].closed
       /\ io_loop[t] # io_loop[u]
       /\ captured = io_loop[t]
       /\ current = io_loop[u]

(***************************************************************************)
(* Properties of shared loops                                              *)
(***************************************************************************)
\* Every Tester was constructed with the same, explicitly passed loop.
SharedLoop == \A t, u \in Testers : io_loop[t] = io_loop[u]

\* C11: two Testers on one shared loop, used one after the other in a
\* driven test.  At every yield made while one of them is active the
\* current loop is the shared loop; the loop captured at the first such
\* yield is the shared loop; and with the shared loop captured no
\* cross-loop error is thrown in: the yielded value is awaited on it.
C11_SharedLoopSequential ==
  [][SharedLoop /\ nested /\ order # <<>> /\ pc = "got" /\ pc' # pc =>
       LET shared == io_loop[order[1]] IN
       /\ current = shared
       /\ stage = "first" => captured' = shared
       /\ stage = "first" \/ captured = shared =>
            /\ pc' = "await"
            /\ ninject' = ninject
            /\ exc' = exc
            /\ awaited' = Append(awaited, [id |-> value, under |-> shared,
                                           result |-> "pending"])]_vars

\* C11 witness: the first Tester was used and torn down, the scope of the
\* second one, on the same loop (not the initial one), was entered, and the
\* value yielded there is being awaited on the shared loop, the first await
\* having succeeded and no error having been thrown in.
C11_Witness ==
  /\ SharedLoop
  /\ io_loop["t1"] # InitialLoop
  /\ pc = "await"
  /\ ninject = 0
  /\ Len(awaited) = 2
  /\ awaited[1].result = "ok"
  /\ awaited[2].under = io_loop["t1"]
  /\ captured = io_loop["t1"]
  /\ ret.op = "__enter__" /\ ret.raised = None
  /\ stack = <<ret.self>>
  /\ \E t \in Testers : TornDown(t) /\ sockets[t].closed

\* A setup() of t passed its checks and was cut short by an error of the
\* framework: t is used, and its server never got the socket attached.
SetupCutShort(t) == _used[t] /\ servers[t].attached = {}

\* C12: Testers on one shared loop, active at the same time, set up and
\* torn down in any order (no setup() cut short): every active Tester
\* finds its own loop current, and once none is active the loop that was
\* current before the first setup is current again.
C12_SharedLoopAnyOrder ==
  SharedLoop /\ (\A t \in Testers : ~SetupCutShort(t)) =>
    /\ \A t \in Testers : Active(t) => current = io_loop[t]
    /\ (\A t \in Testers : ~Active(t)) => current = InitialLoop

(***************************************************************************)
(* Properties of the wrapped call                                          *)
(***************************************************************************)
\* C13: a function that is no generator function is called through.  It
\* is called once, with the arguments of the wrapped call; what it returns
\* or raises is what the wrapped call returns or raises; and the adapter
\* neither reads the current loop (nothing is captured) nor runs a loop
\* (nothing is awaited), nor changes which loop is current.
C13_PlainPassthrough ==
  [][/\ \A a \in CallArgs : Call(FALSE, a) =>
          /\ pc' = "plain"
          /\ receive' = [kind |-> "call", value |-> a]
          /\ current' = current
     /\ pc' = "plain" /\ pc # "plain" => pc = "idle"
     /\ pc # "idle" => pc' # "idle"
     /\ pc = "plain" =>
          /\ pc' \in {"plain", "done"}
          /\ receive' = receive
          /\ stage' = "none"
          /\ captured' = None
          /\ awaited' = <<>>
          /\ nyield' = 0 /\ ninject' = 0
          /\ pc' = "plain" => outcome' = NoExit
          /\ pc' = "done" =>
               /\ genexit'.kind # "none"
               /\ outcome' = genexit'
               /\ outcome'.kind = IF exc = None THEN "return" ELSE "raise"
               /\ exc # None => outcome'.value = exc
               /\ current' = current]_vars

\* C13 witness: a plain function called with a fixture has set up and torn
\* down a Tester on a loop of its own and returned a value, which the
\* wrapped call returned; no loop was captured and nothing was awaited.
C13_Witness ==
  /\ pc = "done"
  /\ stage = "none"
  /\ receive = [kind |-> "call", value |-> <<"tester">>]
  /\ outcome = [kind |-> "return", value |-> "result"]
  /\ captured = None
  /\ awaited = <<>>
  /\ \E t \in Testers :
       TornDown(t) /\ sockets[t].closed /\ io_loop[t] # InitialLoop

\* C14: a generator that finishes on its first advance, without a yield,
\* is the terminal case: the wrapped call returns the generator's return
\* value and does not raise.
C14_ZeroYieldsReturn ==
  pc = "done" /\ stage = "first" /\ nyield = 0 /\ genexit.kind = "return" =>
    outcome = [kind |-> "return", value |-> genexit.value]

(***************************************************************************)
(* Properties of a fixed port and of failures inside setup()               *)
(***************************************************************************)
\* C15: setup() on a fresh Tester made with a fixed port that is free, the
\* framework raising nothing of its own accord, succeeds as with an unused
\* port: the socket is bound to that port and attached to the server, the
\* Tester is active, and base_url is http://<host>:<that port>.
C15_FixedPortSetup ==
  [][\A t \in Testers :
       /\ Setup(t, {"none"})
       /\ Fresh(t)
       /\ port[t] # NoPort
       /\ port[t][1] \notin PortsInUse
       => /\ ret'.raised = None
          /\ Active(t)'
          /\ sockets'[t].port = port[t]
          /\ ~sockets'[t].closed
          /\ t \in servers'[t].attached
          /\ BaseUrlRaises(t)' = None
          /\ base_url(t)' = HttpPrefix \o LocalHost \o <<":">> \o
                            Decimal(port[t][1])]_vars

C17_FetchEncoding ==
  ret.op = "fetch" /\ ret.raised = None =>
    LET kw == ret.value[1]
        sent == ret.value[2]
        method == IF kw.method = Absent THEN Given("POST") ELSE kw.method
    IN
    /\ kw.form # Absent /\ kw.files = Absent =>
         /\ sent.method = method
         /\ sent.body = Given(urlencode(kw.form[1]))
         /\ sent.headers # Absent
         /\ sent.headers[1]["Content-Type"] = FormContentType
         /\ sent.headers[1]["Content-Length"] = Decimal(Len(sent.body[1]))
    /\ kw.files # Absent =>
         /\ sent.method = method
         /\ sent.body # Absent
         /\ sent.headers # Absent
         /\ \E b \in Boundaries :
              /\ sent.headers[1]["Content-Type"] = MultipartPrefix \o b
              /\ sent.body[1] = encode_multipart(
                   IF kw.form = Absent THEN <<>> ELSE kw.form[1],
                   kw.files[1], b)
         /\ sent.headers[1]["Content-Length"] = Decimal(Len(sent.body[1]))
    /\ kw.form = Absent /\ kw.files = Absent =>
         sent = [method |-> kw.method, body |-> kw.body,
                 headers |-> kw.headers]

(***************************************************************************)
(* Properties of the errors of a driven test                               *)
(***************************************************************************)
\* C18: the single-loop rule holds at every await: whenever the adapter
\* awaits a value the generator yielded, the current loop is the captured
\* one, also for the value yielded in reply to a thrown cross-loop error.
C18_SingleLoopAtEveryAwait ==
  pc = "await" => current = captured /\ LastAwait.under = current

\* C19: gen_test swallows no error.  When the generator ends by raising
\* (a failed assertion, a failed await or a thrown cross-loop error it
\* does not catch, an error of a Tester call), the wrapped call raises that
\* same error and pumping stops: nothing is yielded or awaited while the
\* error propagates or after the call is over.  The wrapped call returns
\* only when the generator has returned, and then with its value.
C19_NoErrorSwallowed ==
  [][/\ pc = "gen" /\ pc' = "done" =>
          /\ exc # None =>
               /\ genexit' = [kind |-> "raise", value |-> exc]
               /\ outcome' = [kind |-> "raise", value |-> exc]
          /\ exc = None => genexit'.kind = "return"
          /\ outcome'.kind = "return" =>
               /\ genexit'.kind = "return"
               /\ outcome'.value = genexit'.value
          /\ awaited' = awaited /\ nyield' = nyield
     /\ pc = "gen" /\ exc # None =>
          /\ pc' \in {"gen", "done"}
          /\ awaited' = awaited /\ nyield' = nyield
          /\ pc' = "gen" => outcome' = NoExit
     /\ pc = "done" => UNCHANGED <<pc, outcome, genexit, awaited, nyield>>]_vars

\* C19 witness: after a successful await and send, an assertion of the
\* generator failed inside the scope of a Tester, the scope was left, and
\* the wrapped call has raised the AssertionError.
C19_Witness ==
  /\ pc = "done"
  /\ stage = "step"
  /\ receive.kind = "send"
  /\ LastAwait.result = "ok"
  /\ genexit = [kind |-> "raise", value |-> "AssertionError"]
  /\ outcome = [kind |-> "raise", value |-> "AssertionError"]
  /\ ret.op = "__exit__" /\ ret.raised = None
  /\ TornDown(ret.self)

\* C20: a setup() that passes its checks and then fails (the server or
\* client creation, the bind or the attach raises) leaves the Tester not
\* active, marked used, and its loop current.  From then on the Tester
\* stays so: setup() raises 'can not be reused', teardown() raises 'not
\* setup yet', every accessor raises its RuntimeError, and no call on the
\* Tester changes the Tester, the objects or the current loop, so the loop
\* that was current before is never restored by it.
C20_SetupCutShort ==
  [][\A t \in Testers :
       LET call == /\ ret'.self = t
                   /\ \/ Setup(t, FailPoints)
                      \/ Teardown(t)
                      \/ \E name \in Properties : GetProperty(t, name)
                      \/ GetBaseUrl(t)
                      \/ UrlFor(t)
       IN
       /\ Fresh(t) /\ Setup(t, FailPoints) /\ ret'.raised # None =>
            /\ ret'.raised \notin RuntimeErrors
            /\ exc' = ret'.raised
            /\ ~Active(t)'
            /\ _used'[t]
            /\ current' = io_loop[t]
            /\ _last_current'[t] = current
            /\ servers'[t].attached = {}
       /\ SetupCutShort(t) =>
            /\ ~Active(t) /\ ~Active(t)'
            /\ _used'[t]
            /\ servers'[t].attached = {}
            /\ call =>
                 /\ ret'.raised =
                      CASE ret'.op = "setup" -> ErrReuse
                        [] ret'.op = "teardown" -> ErrNotSetup
                        [] ret'.op = "url_for" -> ErrMethod
                        [] OTHER -> ErrProperty
                 /\ exc' = ret'.raised
                 /\ ret'.value = NoValue
                 /\ UNCHANGED <<testerVars, heapVars, current>>]_vars

\* C20 witness: the setup() of a Tester failed after its server was made,
\* and a later teardown() of that Tester has been refused; the Tester's
\* loop, not the loop current before its setup(), is still current.
C20_Witness ==
  /\ ret.op = "teardown"
  /\ ret.raised = ErrNotSetup
  /\ SetupCutShort(ret.self)
  /\ servers[ret.self].made
  /\ current = io_loop[ret.self]
  /\ _last_current[ret.self] # None
  /\ _last_current[ret.self] # current

=============================================================================
